---- MODULE Spec2Model ----
(***************************************************************************)
(* A model of the Streamlit front end of the product analyzer:             *)
(*   src/sentiment_analysis_prod_reviewer/src/web/app.py   (script "app")  *)
(*   src/sentiment_analysis_prod_reviewer/pages/1_Results.py ("page")      *)
(*                                                                         *)
(* One browser session is modelled.  Streamlit runs a script from top to   *)
(* bottom on every user event (a button click, a page navigation) and on   *)
(* st.experimental_rerun(); st.session_state survives between runs and is  *)
(* shared by the two scripts.  A button returns True only in the run its   *)
(* click started, and only if that run reaches the st.button call.         *)
(*                                                                         *)
(* SentimentAnalyzer (src/models/model_integration.py), the scraper and    *)
(* the price extractor are not part of the sources at hand.  The analyzer  *)
(* is modelled from the specification (analyze_reviews, Classify,          *)
(* create_visualizations); the scraper is an input: any review list, or an *)
(* exception.  extract_price is wrapped in try/except and its value is     *)
(* never used, so it is left out.  The import of src.web.app at            *)
(* 1_Results.py:14 is taken to be served from sys.modules.                 *)
(*                                                                         *)
(* An optional value (a session key, a local not yet assigned) is a set:   *)
(* {} when absent, {v} when present.                                       *)
(***************************************************************************)
EXTENDS Integers, Sequences, FiniteSets, TLC

\* ------------------------------------------------------------- bounds
\* The scraper is called with max_reviews=50; the model keeps lists short.
MaxReviews == 3

\* ---------------------------------------------------------- constants
Links == {"L1", "L2"}
Labels == {"positive", "negative", "neutral"}
\* What the classifier may answer for a review.  Confidence is counted in
\* hundredths: 80 is 0.80.
Confidences == {80}
ClassifierOutcomes == [label : Labels, confidence : Confidences]
NeutralZero == [label |-> "neutral", confidence |-> 0]

Keys == {"current_view", "page_refresh", "submitted_link",
         "sentiment_distribution", "sentiment_score", "model_name",
         "avg_confidence"}
ArtefactKeys == {"sentiment_distribution", "sentiment_score", "model_name",
                 "avg_confidence"}

EmptySession == [k \in Keys |-> {}]

Val(s) == CHOOSE x \in s : TRUE

\* The lists the scraper may return: for each length, the reviews 1..n in
\* ascending and in descending order of their identity.
ReviewLists ==
    UNION { { [i \in 1..n |-> i], [i \in 1..n |-> n + 1 - i] } : n \in 0..MaxReviews }

VARIABLES
    session,        \* st.session_state
    phase,          \* where the running script is; "idle" between runs
    script,         \* the script that runs: "app" or "page"
    trigger,        \* the widget whose event started the run
    link_input,     \* the text of the product_link input in this run
    link,           \* local `link` of the results code
    reviews,        \* local `reviews`
    scrape_raised,  \* the scraper raised in this run
    classified,     \* analyzer: classification of each review, by index
    failed,         \* analyzer: indices whose classifier call failed
    outOfOrder,     \* some review completed before one of lower index
    result,         \* locals sentiment, score, pos_count, ... of the run
    branch,         \* which arm of `if reviews:` the run took
    screen,         \* what the browser shows
    submitPending,  \* Submit stored a link and the user has not acted since
    reset           \* Try Again ran and no link has been submitted since

vars == <<session, phase, script, trigger, link_input, link, reviews,
          scrape_raised, classified, failed, outOfOrder, result, branch,
          screen, submitPending, reset>>

locals == <<link, reviews, scrape_raised, classified, failed, outOfOrder,
            result, branch>>

BlankScreen == [view |-> "blank", script |-> "app", link |-> {},
                plot1 |-> {}, plot2 |-> {}]

Init ==
    /\ session = EmptySession
    /\ phase = "idle"
    /\ script = "app"
    /\ trigger = "none"
    /\ link_input = ""
    /\ link = {}
    /\ reviews = <<>>
    /\ scrape_raised = FALSE
    /\ classified = <<>>
    /\ failed = {}
    /\ outOfOrder = FALSE
    /\ result = {}
    /\ branch = "none"
    /\ screen = BlankScreen
    /\ submitPending = FALSE
    /\ reset = "none"

\* ---------------------------------------------------------- analyzer
\* SentimentAnalyzer, modelled from the specification (sections 3, 4.1, 5).

RECURSIVE Gcd(_, _)
Gcd(a, b) == IF b = 0 THEN a ELSE Gcd(b, a % b)

\* An exact fraction in lowest terms.
Frac(a, b) == [num |-> a \div Gcd(a, b), den |-> b \div Gcd(a, b)]
Half == [num |-> 1, den |-> 2]

CountLabel(cls, l) ==
    Cardinality({ i \in DOMAIN cls : Val(cls[i]).label = l })

RECURSIVE SumConfidence(_, _)
SumConfidence(cls, n) ==
    IF n = 0 THEN 0 ELSE Val(cls[n]).confidence + SumConfidence(cls, n - 1)

AnalyzerModelName == "pretrained"

\* analyze(reviews): the reduction of the per-review classifications, which
\* are held by original index (not by completion time).
analyze_reviews(revs, cls) ==
    LET n   == Len(revs)
        pos == CountLabel(cls, "positive")
        neg == CountLabel(cls, "negative")
    IN [ overall_sentiment  |-> IF pos > neg THEN "positive"
                                ELSE IF neg > pos THEN "negative"
                                ELSE "neutral",
         score              |-> IF pos + neg > 0 THEN Frac(pos, pos + neg) ELSE Half,
         positive_count     |-> pos,
         negative_count     |-> neg,
         \* the arithmetic mean, as the exact pair (sum of hundredths, count)
         average_confidence |-> IF n = 0 THEN {} ELSE {[sum |-> SumConfidence(cls, n), n |-> n]},
         detailed_results   |-> [i \in 1..n |->
                                   [review     |-> revs[i],
                                    label      |-> Val(cls[i]).label,
                                    confidence |-> Val(cls[i]).confidence]],
         model_name         |-> {AnalyzerModelName} ]

\* The two figures: the three-bucket distribution and the score indicator.
create_visualizations(results) ==
    [ fig1 |-> [kind     |-> "distribution",
                positive |-> results.positive_count,
                negative |-> results.negative_count,
                neutral  |-> Len(results.detailed_results)
                               - results.positive_count - results.negative_count],
      fig2 |-> [kind |-> "score", score |-> results.score] ]

\* ------------------------------------------- predict_sentiment_from_reviews

\* f"{avg_confidence:.2f}": the mean rounded to hundredths, as the digits
\* before and after the point.  (The modelled confidences are 0.80 and 0:
\* the mean of fewer than thirty-two of them never lies exactly between two
\* hundredths, where the float's last bit would decide.)
Format2f(avg) ==
    LET h == (2 * avg.sum + avg.n) \div (2 * avg.n)
    IN [whole |-> h \div 100, frac |-> h % 100]

\* `if avg_confidence:` is false for None and for 0.0
Truthy(avg) == avg # {} /\ Val(avg).sum # 0

\* app.py:36, results.get('model_name', 'Sentiment Model')
ResultModelName(results) ==
    IF results.model_name = {} THEN "Sentiment Model" ELSE Val(results.model_name)

\* Mutant of SessionWrites: the `if avg_confidence:` guard is lost and the
\* mean is stored whenever there is one.
SessionWrites_unguarded(results, ss) ==
    LET figs == create_visualizations(results)
        name == ResultModelName(results)
        s1   == [ss EXCEPT !["sentiment_distribution"] = {figs.fig1},
                           !["sentiment_score"] = {figs.fig2},
                           !["model_name"] = {name}]
    IN IF results.average_confidence # {}
       THEN [s1 EXCEPT !["avg_confidence"] = {Format2f(Val(results.average_confidence))}]
       ELSE s1

\* app.py:43-48
SessionWrites(results, ss) ==
    LET figs == create_visualizations(results)
        name == ResultModelName(results)
        s1   == [ss EXCEPT !["sentiment_distribution"] = {figs.fig1},
                           !["sentiment_score"] = {figs.fig2},
                           !["model_name"] = {name}]
    IN IF Truthy(results.average_confidence)
       THEN [s1 EXCEPT !["avg_confidence"] = {Format2f(Val(results.average_confidence))}]
       ELSE s1

Reverse(seq) == [i \in 1..Len(seq) |-> seq[Len(seq) + 1 - i]]

\* Mutant of ReturnTuple: the detailed results are returned last first.
ReturnTuple_reversed(results) ==
    [ sentiment        |-> results.overall_sentiment,
      score            |-> results.score,
      pos_count        |-> results.positive_count,
      neg_count        |-> results.negative_count,
      detailed_results |-> Reverse(results.detailed_results),
      model_name       |-> ResultModelName(results) ]

\* Mutant of ReturnTuple: the two counts change places in the tuple.
ReturnTuple_counts_swapped(results) ==
    [ sentiment        |-> results.overall_sentiment,
      score            |-> results.score,
      pos_count        |-> results.negative_count,
      neg_count        |-> results.positive_count,
      detailed_results |-> results.detailed_results,
      model_name       |-> ResultModelName(results) ]

\* Mutant of ReturnTuple: neg_count is read from the key 'positive_count'.
ReturnTuple_neg_from_pos_key(results) ==
    [ sentiment        |-> results.overall_sentiment,
      score            |-> results.score,
      pos_count        |-> results.positive_count,
      neg_count        |-> results.positive_count,
      detailed_results |-> results.detailed_results,
      model_name       |-> ResultModelName(results) ]

\* app.py:50, the returned tuple
ReturnTuple(results) ==
    [ sentiment        |-> results.overall_sentiment,
      score            |-> results.score,
      pos_count        |-> results.positive_count,
      neg_count        |-> results.negative_count,
      detailed_results |-> results.detailed_results,
      model_name       |-> ResultModelName(results) ]

\* The keys read with results[...]: a missing one raises KeyError.
RequiredResultKeys == {"overall_sentiment", "score", "positive_count",
                       "negative_count", "detailed_results"}

\* Mutant of predict_sentiment_from_reviews: a ratio over the reviews that
\* got a verdict is computed in the function and divides by zero when every
\* review is neutral.
predict_divides_by_verdicts(results, ss) ==
    IF RequiredResultKeys \subseteq DOMAIN results
       /\ results.positive_count + results.negative_count # 0
    THEN [raised |-> FALSE, ret |-> {ReturnTuple(results)}, ss |-> SessionWrites(results, ss)]
    ELSE [raised |-> TRUE, ret |-> {}, ss |-> ss]

\* app.py:27-50.  raised: an exception leaves the function.
predict_sentiment_from_reviews(results, ss) ==
    IF RequiredResultKeys \subseteq DOMAIN results
    THEN [raised |-> FALSE, ret |-> {ReturnTuple(results)}, ss |-> SessionWrites(results, ss)]
    ELSE [raised |-> TRUE, ret |-> {}, ss |-> ss]

\* app.py:121 and 1_Results.py:51
DefaultLocals ==
    [ sentiment |-> "neutral", score |-> Half, pos_count |-> 0, neg_count |-> 0,
      detailed_results |-> <<>>, model_name |-> "No Model" ]

\* ------------------------------------------------------------ user events
\* A new run starts with fresh locals.
FreshLocals ==
    /\ link' = {}
    /\ reviews' = <<>>
    /\ scrape_raised' = FALSE
    /\ classified' = <<>>
    /\ failed' = {}
    /\ outOfOrder' = FALSE
    /\ result' = {}
    /\ branch' = "none"

StartRun(s, t, text) ==
    /\ phase = "idle"
    /\ phase' = "run"
    /\ script' = s
    /\ trigger' = t
    /\ link_input' = text
    /\ submitPending' = FALSE
    /\ FreshLocals
    /\ UNCHANGED <<session, screen, reset>>

\* The user opens one of the two pages, or reruns it from the menu.
Navigate == \E s \in {"app", "page"} : StartRun(s, "none", "")

\* The user clicks Submit on the input page, with some text in the input.
ClickSubmit ==
    /\ screen.view = "input"
    /\ \E text \in Links \cup {""} : StartRun(screen.script, "submit", text)

\* The user clicks Try Again on a results view.
ClickTryAgain ==
    /\ screen.view = "results"
    /\ StartRun(screen.script, "tryagain", "")

\* ------------------------------------------------------------------ app.py

\* app.py:179-180
HandlePageRefresh(ss) ==
    IF ss["page_refresh"] = {TRUE} THEN [ss EXCEPT !["page_refresh"] = {FALSE}] ELSE ss

\* app.py:168-170
InitSessionState(ss) ==
    IF ss["current_view"] = {}
    THEN [ss EXCEPT !["current_view"] = {"input"}, !["page_refresh"] = {FALSE}]
    ELSE ss

\* app.py:74-80, the Submit handler
SubmitHandler(ss, text) ==
    IF text # ""
    THEN [ss EXCEPT !["submitted_link"] = {text},
                    !["current_view"] = {"results"},
                    !["page_refresh"] = {TRUE}]
    ELSE ss

\* app.py:167-180 with show_input_page (52-80) and the head of
\* show_results_page (82-88).
AppRun ==
    /\ phase = "run"
    /\ script = "app"
    /\ LET s1 == InitSessionState(session)
       IN IF s1["current_view"] = {"input"}
          THEN LET clicked == trigger = "submit"
                   s2 == IF clicked THEN SubmitHandler(s1, link_input) ELSE s1
               IN /\ session' = HandlePageRefresh(s2)
                  /\ screen' = [view |-> "input", script |-> "app", link |-> {},
                                plot1 |-> {}, plot2 |-> {}]
                  /\ submitPending' = (clicked /\ link_input # "")
                  /\ reset' = IF clicked /\ link_input # "" THEN "none" ELSE reset
                  /\ phase' = "idle"
                  /\ UNCHANGED <<link, trigger, link_input>>
          ELSE IF s1["current_view"] = {"results"} /\ s1["submitted_link"] # {}
          THEN \* neither the input nor the Submit button is drawn in this
               \* run: an event of theirs is dropped
               /\ session' = s1
               /\ link' = s1["submitted_link"]
               /\ phase' = "scrape"
               /\ trigger' = IF trigger = "submit" THEN "none" ELSE trigger
               /\ link_input' = ""
               /\ screen' = BlankScreen
               /\ UNCHANGED <<submitPending, reset>>
          ELSE \* st.error("No product link submitted..."); return
               /\ session' = HandlePageRefresh(s1)
               /\ screen' = [view |-> "error", script |-> "app", link |-> {},
                             plot1 |-> {}, plot2 |-> {}]
               /\ phase' = "idle"
               /\ UNCHANGED <<link, trigger, link_input, submitPending, reset>>
    /\ UNCHANGED <<script, reviews, scrape_raised, classified, failed,
                   outOfOrder, result, branch>>

\* ------------------------------------------------------------ 1_Results.py

\* 1_Results.py:27-31
PageRun ==
    /\ phase = "run"
    /\ script = "page"
    /\ IF session["submitted_link"] = {}
       THEN \* st.warning(...); st.stop()
            /\ screen' = [view |-> "nolink", script |-> "page", link |-> {},
                          plot1 |-> {}, plot2 |-> {}]
            /\ phase' = "idle"
            /\ UNCHANGED link
       ELSE /\ link' = session["submitted_link"]
            /\ phase' = "scrape"
            /\ screen' = BlankScreen
    /\ UNCHANGED <<session, script, trigger, link_input, reviews, scrape_raised,
                   classified, failed, outOfOrder, result, branch,
                   submitPending, reset>>

\* ------------------------------------------- the results code, both scripts

\* app.py:107-114 and 1_Results.py:38-45
Scrape ==
    /\ phase = "scrape"
    /\ \E raised \in BOOLEAN, got \in ReviewLists :
          /\ scrape_raised' = raised
          /\ reviews' = IF raised THEN <<>> ELSE got
    /\ phase' = "scraped"
    /\ UNCHANGED <<session, script, trigger, link_input, link, classified,
                   failed, outOfOrder, result, branch, screen, submitPending,
                   reset>>

\* app.py:116-117 (1_Results.py:46-47): `if reviews:` is true and
\* predict_sentiment_from_reviews is entered; app.py:31 starts the analysis.
PredictCall ==
    /\ phase = "scraped"
    /\ reviews # <<>>
    /\ classified' = [i \in 1..Len(reviews) |-> {}]
    /\ phase' = "classify"
    /\ UNCHANGED <<session, script, trigger, link_input, link, reviews,
                   scrape_raised, failed, outOfOrder, result, branch, screen,
                   submitPending, reset>>

\* The classifier answers for one review, in any order of completion; a
\* failed call is recorded as neutral with confidence 0.
Classify ==
    /\ phase = "classify"
    /\ \E i \in DOMAIN classified :
          /\ classified[i] = {}
          /\ outOfOrder' = (outOfOrder \/ \E j \in 1..(i - 1) : classified[j] = {})
          /\ \/ \E c \in ClassifierOutcomes :
                   /\ classified' = [classified EXCEPT ![i] = {c}]
                   /\ UNCHANGED failed
             \/ /\ classified' = [classified EXCEPT ![i] = {NeutralZero}]
                /\ failed' = failed \cup {i}
    /\ UNCHANGED <<session, phase, script, trigger, link_input, link, reviews,
                   scrape_raised, result, branch, screen, submitPending, reset>>

\* app.py:31-50: the analysis is complete; the function stores its artefacts
\* and returns, or raises through the caller, which catches nothing.
PredictReturn ==
    /\ phase = "classify"
    /\ \A i \in DOMAIN classified : classified[i] # {}
    /\ LET out == predict_sentiment_from_reviews(analyze_reviews(reviews, classified), session)
       IN IF out.raised
          THEN /\ branch' = "raised"
               /\ phase' = "idle"
               /\ screen' = [view |-> "exception", script |-> script, link |-> link,
                             plot1 |-> {}, plot2 |-> {}]
               /\ UNCHANGED <<session, result>>
          ELSE /\ branch' = "predict"
               /\ phase' = "display"
               /\ session' = out.ss
               /\ result' = out.ret
               /\ UNCHANGED screen
    /\ UNCHANGED <<script, trigger, link_input, link, reviews, scrape_raised,
                   classified, failed, outOfOrder, submitPending, reset>>

\* app.py:119-122 (1_Results.py:49-52)
DefaultResult ==
    /\ phase = "scraped"
    /\ reviews = <<>>
    /\ result' = {DefaultLocals}
    /\ branch' = "default"
    /\ phase' = "display"
    /\ UNCHANGED <<session, script, trigger, link_input, link, reviews,
                   scrape_raised, classified, failed, outOfOrder, screen,
                   submitPending, reset>>

\* app.py:124-150 (1_Results.py:54-77): the report; each plot is drawn when
\* its key is in the session state.
Display ==
    /\ phase = "display"
    /\ screen' = [view |-> "results", script |-> script, link |-> link,
                  plot1 |-> session["sentiment_distribution"],
                  plot2 |-> session["sentiment_score"]]
    /\ phase' = "button"
    /\ UNCHANGED <<session, script, trigger, link_input, locals, submitPending,
                   reset>>

\* Mutant of TryAgainHandlerApp: the test of the key is inverted, so that
\* only current_view is deleted.
TryAgainHandlerApp_inverted(ss) ==
    LET kept == [k \in Keys |-> IF k = "current_view" THEN {} ELSE ss[k]]
    IN [kept EXCEPT !["current_view"] = {"input"}, !["page_refresh"] = {TRUE}]

\* app.py:154-158
TryAgainHandlerApp(ss) ==
    LET kept == [k \in Keys |-> IF k # "current_view" THEN {} ELSE ss[k]]
    IN [kept EXCEPT !["current_view"] = {"input"}, !["page_refresh"] = {TRUE}]

\* 1_Results.py:80-81
TryAgainHandlerPage(ss) == [k \in Keys |-> {}]

\* app.py:153-158, then 179-180: Try Again was clicked.
TryAgainApp ==
    /\ phase = "button"
    /\ script = "app"
    /\ trigger = "tryagain"
    /\ session' = HandlePageRefresh(TryAgainHandlerApp(session))
    /\ reset' = "app"
    /\ phase' = "idle"
    /\ UNCHANGED <<script, trigger, link_input, locals, screen, submitPending>>

\* 1_Results.py:79-82: Try Again was clicked; st.experimental_rerun() starts
\* the script again, with no widget event.
TryAgainPage ==
    /\ phase = "button"
    /\ script = "page"
    /\ trigger = "tryagain"
    /\ session' = TryAgainHandlerPage(session)
    /\ reset' = "page"
    /\ phase' = "run"
    /\ trigger' = "none"
    /\ FreshLocals
    /\ UNCHANGED <<script, link_input, screen, submitPending>>

\* The button was not clicked: the run ends (in app.py after 179-180).
EndRun ==
    /\ phase = "button"
    /\ trigger # "tryagain"
    /\ session' = IF script = "app" THEN HandlePageRefresh(session) ELSE session
    /\ phase' = "idle"
    /\ UNCHANGED <<script, trigger, link_input, locals, screen, submitPending,
                   reset>>

Next ==
    \/ Navigate
    \/ ClickSubmit
    \/ ClickTryAgain
    \/ AppRun
    \/ PageRun
    \/ Scrape
    \/ PredictCall
    \/ Classify
    \/ PredictReturn
    \/ DefaultResult
    \/ Display
    \/ TryAgainApp
    \/ TryAgainPage
    \/ EndRun

Spec == Init /\ [][Next]_vars

\* ================================================================ claims

Analysed == branch = "predict"
Res == Val(result)

\* A returned tuple is well formed for the reviews it was computed from.
WellFormed(res, revs) ==
    /\ res.sentiment \in Labels
    /\ res.score.num \in 0..res.score.den /\ res.score.den > 0
    /\ res.pos_count \in Nat /\ res.neg_count \in Nat
    /\ Len(res.detailed_results) = Len(revs)
    /\ \A i \in 1..Len(res.detailed_results) :
          /\ res.detailed_results[i].label \in Labels
          /\ res.detailed_results[i].confidence \in 0..100

\* C1: when classifier calls fail for any of the reviews of a non-empty
\* batch, no exception leaves predict_sentiment_from_reviews, the returned
\* tuple is well formed, and each failed review is recorded as neutral with
\* confidence 0.
C1_FailedReviewsRecordedNeutral ==
    /\ branch # "raised"
    /\ Analysed =>
          /\ result # {}
          /\ WellFormed(Res, reviews)
          /\ \A i \in failed :
                /\ Res.detailed_results[i].label = "neutral"
                /\ Res.detailed_results[i].confidence = 0

\* C1 witness: an analysis returned for a batch in which some, but not all,
\* classifier calls failed.
C1_Witness ==
    /\ Analysed
    /\ failed # {}
    /\ Cardinality(failed) < Len(reviews)

\* C2: for an empty review list the result is neutral, 0.5, 0, 0, no
\* average confidence and no detailed results, on both pages, whatever an
\* earlier analysis left in the session state.
C2_EmptyInputDefault ==
    branch = "default" =>
        /\ result # {}
        /\ Res.sentiment = "neutral"
        /\ Res.score = Half
        /\ Res.pos_count = 0
        /\ Res.neg_count = 0
        /\ Res.detailed_results = <<>>
        /\ session["avg_confidence"] = {}

\* C3 as claimed: a call of predict_sentiment_from_reviews leaves every key
\* of st.session_state unchanged.
C3_PredictLeavesSessionUnchanged ==
    [][(~Analysed /\ Analysed') => session' = session]_vars

\* C3 as amended: a call of predict_sentiment_from_reviews sets the keys
\* sentiment_distribution, sentiment_score and model_name to the figures and
\* the model name of this analysis, sets avg_confidence to the formatted
\* mean when the mean is not zero and leaves it as it was otherwise, and
\* leaves every other key unchanged.
C3_PredictWritesOnlyArtefacts ==
    [][(~Analysed /\ Analysed') =>
          LET res  == Val(result')
              n    == Len(reviews)
              sum  == SumConfidence(classified, n)
          IN /\ \A k \in Keys \ ArtefactKeys : session'[k] = session[k]
             /\ session'["sentiment_distribution"] =
                   {[kind |-> "distribution", positive |-> res.pos_count,
                     negative |-> res.neg_count,
                     neutral |-> n - res.pos_count - res.neg_count]}
             /\ session'["sentiment_score"] = {[kind |-> "score", score |-> res.score]}
             /\ session'["model_name"] = {res.model_name}
             /\ session'["avg_confidence"] =
                   IF sum = 0 THEN session["avg_confidence"]
                   ELSE {Format2f([sum |-> sum, n |-> n])}
      ]_vars

\* C3 witness: the function has returned, the artefacts are in the session
\* state and the submitted link is still there.
C3_Witness ==
    /\ Analysed
    /\ phase = "display"
    /\ session["sentiment_distribution"] # {}
    /\ session["avg_confidence"] # {}
    /\ session["submitted_link"] # {}

\* C4: detailed_results lists the reviews in the input order, whatever the
\* order in which the classifications completed.
C4_DetailedResultsInInputOrder ==
    Analysed =>
        /\ Len(Res.detailed_results) = Len(reviews)
        /\ \A i \in 1..Len(reviews) :
              /\ Res.detailed_results[i].review = reviews[i]
              /\ Res.detailed_results[i].label = Val(classified[i]).label
              /\ Res.detailed_results[i].confidence = Val(classified[i]).confidence

\* C4 witness: an analysis returned for reviews that are not in ascending
\* order of identity and whose classifications completed out of order.
C4_Witness ==
    /\ Analysed
    /\ outOfOrder
    /\ Len(reviews) >= 2
    /\ reviews[1] > reviews[2]

\* C5: for a non-empty batch the overall sentiment is positive when
\* positive_count > negative_count, negative when negative_count >
\* positive_count and neutral on a tie, the counts being those of the
\* reviews classified positive and negative.
C5_MajoritySentiment ==
    Analysed =>
        /\ Res.pos_count = CountLabel(classified, "positive")
        /\ Res.neg_count = CountLabel(classified, "negative")
        /\ Res.sentiment = IF Res.pos_count > Res.neg_count THEN "positive"
                           ELSE IF Res.neg_count > Res.pos_count THEN "negative"
                           ELSE "neutral"

\* C5 witness: one positive, one negative and one neutral review give
\* neutral.
C5_Witness ==
    /\ Analysed
    /\ CountLabel(classified, "positive") = 1
    /\ CountLabel(classified, "negative") = 1
    /\ CountLabel(classified, "neutral") = 1
    /\ Res.sentiment = "neutral"

\* C6: for a non-empty batch positive_count + negative_count is at most the
\* number of reviews; the neutral reviews, failed ones included, are in
\* neither count.
C6_CountsBounded ==
    Analysed =>
        /\ Res.pos_count + Res.neg_count <= Len(reviews)
        /\ Res.pos_count + Res.neg_count
              = Len(reviews) - CountLabel(classified, "neutral")

\* C6 witness: a batch with a failed review, a review classified neutral
\* and a review counted positive or negative.
C6_Witness ==
    /\ Analysed
    /\ failed # {}
    /\ \E i \in DOMAIN classified :
          i \notin failed /\ Val(classified[i]).label = "neutral"
    /\ Res.pos_count + Res.neg_count >= 1

\* C7: after Submit with a non-empty link the results view of that link is
\* rendered without a further user interaction.  Between runs nothing
\* happens until the user acts: so when the run that handled Submit has
\* ended, the browser shows the results view of the submitted link.
C7_SubmitShowsResults ==
    (phase = "idle" /\ submitPending) =>
        /\ screen.view = "results"
        /\ screen.link = session["submitted_link"]

\* C8: once Try Again has run, the session state holds no submitted_link and
\* no analysis artefact, in app.py current_view is 'input', and what is
\* rendered next is the input page (the no-link notice on the results
\* page), never a results view, until a link is submitted again.
C8_TryAgainClears ==
    /\ [](reset # "none" =>
            /\ session["submitted_link"] = {}
            /\ \A k \in ArtefactKeys : session[k] = {}
            /\ reset = "app" => session["current_view"] = {"input"})
    /\ [][(reset # "none" /\ screen' # screen) =>
            screen'.view = IF script = "app" THEN "input" ELSE "nolink"]_vars

\* C8 witness: after Try Again in app.py the next run has drawn the input
\* page.
C8_Witness ==
    /\ reset = "app"
    /\ phase = "idle"
    /\ screen.view = "input"

\* The figures of the analysis whose tuple is res.
FiguresOf(res, revs) ==
    [ fig1 |-> [kind |-> "distribution", positive |-> res.pos_count,
                negative |-> res.neg_count,
                neutral |-> Len(revs) - res.pos_count - res.neg_count],
      fig2 |-> [kind |-> "score", score |-> res.score] ]

\* C9: a chart shown on a results view is the chart
\* predict_sentiment_from_reviews made of the reviews scraped in the same
\* run; a run whose scrape gave no reviews shows no chart.
C9_ChartsAreOfThisRun ==
    (phase \in {"button", "idle"} /\ screen.view = "results") =>
        /\ screen.plot1 # {} =>
              Analysed /\ screen.plot1 = {FiguresOf(Res, reviews).fig1}
        /\ screen.plot2 # {} =>
              Analysed /\ screen.plot2 = {FiguresOf(Res, reviews).fig2}

====
